---- MODULE Spec2Model ----
(***************************************************************************)
(* nuru-cat: the renderer (print_nui and the per-cell colour and glyph     *)
(* printers) and the program's main, as a state machine.                   *)
(*                                                                         *)
(* stdout is modelled by `out`, the tokens written by the latest step of   *)
(* print_nui (one cell's output, or one line break), together with the     *)
(* running counts `ncells` and `nbreaks` of cells and line breaks written. *)
(* A token is a record [t, layer, v]:                                      *)
(*    t = "sgr"  v = <<n>>       "\x1b[<n>m"            (lines 208, 215)   *)
(*    t = "c256" v = <<n>>       "\x1b[38;5;<n>m" / 48  (lines 224, 228)   *)
(*    t = "rgb"  v = <<r,g,b>>   "\x1b[38;2;r;g;bm" / 48 (lines 246, 261)  *)
(*    t = "char" v = <<code>>    fputwc(code)                              *)
(*    t = "reset" v = <<0>>      ANSI_FONT_RESET "\x1b[0m"                 *)
(* layer is "fg" or "bg" for the colour sequences (which of the two        *)
(* statements of the printer wrote it) and "-" otherwise.                  *)
(***************************************************************************)
EXTENDS Integers, Sequences, FiniteSets, TLC

VARIABLES
    pc,       \* position in main / print_nui
    opts,     \* options_s after parse_args
    env,      \* the environment main reads: XDG_CONFIG_HOME set, stdin a tty
    nui,      \* nuru_img_s
    nug,      \* nuru_pal_s, glyph palette
    nuc,      \* nuru_pal_s, color palette
    ws,       \* struct winsize: the available area (ws_col, ws_row)
    term,     \* terminal state: cursor, echo, cleared, style
    loads,    \* the load calls made so far, in order
    status,   \* exit status of main ("running" until it returns)
    r, c,     \* print_nui's 16-bit loop counters
    cell,     \* print_nui's cell pointer: <<col, row>> of the cell last fetched
    out,      \* tokens written by the latest step of print_nui
    ncells,   \* cells rendered so far
    nbreaks   \* line breaks written so far

vars == <<pc, opts, env, nui, nug, nuc, ws, term, loads, status,
          r, c, cell, out, ncells, nbreaks>>

----------------------------------------------------------------------------
(* Bounds of the model *)

\* image and area dimensions of the clipping runs: 0..MaxDim
MaxDim == 3
\* image width of the cell-rendering runs: 1..MaxCellCols
MaxCellCols == 2

----------------------------------------------------------------------------
(* Program constants *)

\* uint16_t: largest value of r, c, cols, rows
U16Max == 65535
\* uint8_t modulus
U8Mod == 256

\* nuru.h
NURU_SPACE == 32
NURU_COLOR_MODE_NONE == 0
NURU_COLOR_MODE_4BIT == 1
NURU_COLOR_MODE_8BIT == 2
NURU_COLOR_MODE_PALETTE == 130
NURU_GLYPH_MODE_NONE == 0
NURU_GLYPH_MODE_ASCII == 1
NURU_GLYPH_MODE_UNICODE == 2
NURU_GLYPH_MODE_PALETTE == 129
NURU_PAL_TYPE_NONE == 0
NURU_PAL_TYPE_COLOR_8BIT == 1
NURU_PAL_TYPE_COLOR_RGB == 2
NURU_PAL_TYPE_GLYPH == 3

ColorModes == {NURU_COLOR_MODE_NONE, NURU_COLOR_MODE_4BIT,
               NURU_COLOR_MODE_8BIT, NURU_COLOR_MODE_PALETTE}
GlyphModes == {NURU_GLYPH_MODE_NONE, NURU_GLYPH_MODE_ASCII,
               NURU_GLYPH_MODE_UNICODE, NURU_GLYPH_MODE_PALETTE}

\* (mode & 128) != 0 for a byte
HighBit(b) == (b \div 128) % 2 = 1

Min(a, b) == IF a < b THEN a ELSE b

----------------------------------------------------------------------------
(* Output tokens *)

Tok(t, layer, v) == [t |-> t, layer |-> layer, v |-> v]
RESET == Tok("reset", "-", <<0>>)
Char(code) == Tok("char", "-", <<code>>)
NEWLINE == Char(10)

\* the 38 / 48 that selects foreground / background in the extended sequences
LayerCode(layer) == IF layer = "fg" THEN 38 ELSE 48

\* the numeric parameters of the escape sequence a token stands for
Params(tok) ==
    CASE tok.t = "sgr"   -> tok.v
      [] tok.t = "c256"  -> <<LayerCode(tok.layer), 5>> \o tok.v
      [] tok.t = "rgb"   -> <<LayerCode(tok.layer), 2>> \o tok.v
      [] tok.t = "reset" -> tok.v
      [] OTHER           -> <<>>

\* the terminal's current style after it has read toks: a colour-set sequence
\* leaves it "colored", ANSI_FONT_RESET leaves it "default"
RECURSIVE StyleAfter(_, _)
StyleAfter(style, toks) ==
    IF toks = <<>> THEN style
    ELSE StyleAfter(IF Head(toks).t = "reset" THEN "default"
                    ELSE IF Head(toks).t \in {"sgr", "c256", "rgb"} THEN "colored"
                    ELSE style,
                    Tail(toks))

----------------------------------------------------------------------------
(* Palettes (nuru.h): a palette is [type, seed]; seed stands for the table  *)
(* read from the file. The zero-initialised palette has type 0 and an      *)
(* all-zero table.                                                          *)

ZeroPal == [type |-> NURU_PAL_TYPE_NONE, seed |-> 0]

nuru_pal_get_col_8bit(pal, idx) ==
    IF pal.type = NURU_PAL_TYPE_NONE THEN 0
    ELSE (255 - idx + pal.seed) % U8Mod

nuru_pal_get_col_rgb(pal, idx) ==
    IF pal.type = NURU_PAL_TYPE_NONE THEN <<0, 0, 0>>
    ELSE <<idx, (255 - idx + pal.seed) % U8Mod, (2 * idx + pal.seed) % U8Mod>>

nuru_pal_get_glyph(pal, idx) ==
    IF pal.type = NURU_PAL_TYPE_NONE THEN 0
    ELSE 9472 + idx + pal.seed

----------------------------------------------------------------------------
(* Images (nuru.h): the cell array is held as its repeating period `cells`; *)
(* the cell at (col, row) is the one at row-major index row * cols + col.   *)

ZeroImg == [color_mode |-> 0, glyph_mode |-> 0, cols |-> 0, rows |-> 0,
            ch_key |-> 0, fg_key |-> 0, bg_key |-> 0,
            glyph_pal |-> <<>>, color_pal |-> <<>>, cells |-> <<>>]

nuru_img_get_cell(img, col, row) ==
    img.cells[((row * img.cols + col) % Len(img.cells)) + 1]

----------------------------------------------------------------------------
(* The cell printers *)

\* uint8_t col = (v < 8 ? v + 30 : v + 82), truncated to 8 bits
Col4bit(v) == (IF v < 8 THEN v + 30 ELSE v + 82) % U8Mod

print_color_4bit(cl, fg_key, bg_key) ==
    (IF cl.fg # fg_key
        THEN <<Tok("sgr", "fg", <<Col4bit(cl.fg)>>)>> ELSE <<>>)
    \o
    (IF cl.bg # bg_key
        THEN <<Tok("sgr", "bg", <<(Col4bit(cl.bg) + 10) % U8Mod>>)>> ELSE <<>>)

\* mutant: a sentinel foreground returns before the background is looked at
print_color_8bitMutant(cl, fg_key, bg_key) ==
    IF cl.fg = fg_key THEN <<>>
    ELSE <<Tok("c256", "fg", <<cl.fg>>)>>
         \o (IF cl.bg # bg_key THEN <<Tok("c256", "bg", <<cl.bg>>)>> ELSE <<>>)
print_color_8bit(cl, fg_key, bg_key) ==
    (IF cl.fg # fg_key THEN <<Tok("c256", "fg", <<cl.fg>>)>> ELSE <<>>)
    \o
    (IF cl.bg # bg_key THEN <<Tok("c256", "bg", <<cl.bg>>)>> ELSE <<>>)

\* one of the two halves of print_color_pal: layer is "fg" or "bg"
PalLayer(pal, layer, v) ==
    IF pal.type = NURU_PAL_TYPE_COLOR_8BIT
        THEN <<Tok("c256", layer, <<nuru_pal_get_col_8bit(pal, v)>>)>>
    ELSE IF pal.type = NURU_PAL_TYPE_COLOR_RGB
        THEN <<Tok("rgb", layer, nuru_pal_get_col_rgb(pal, v))>>
    ELSE <<>>

print_color_pal(cl, fg_key, bg_key, pal) ==
    (IF cl.fg # fg_key THEN PalLayer(pal, "fg", cl.fg) ELSE <<>>)
    \o
    (IF cl.bg # bg_key THEN PalLayer(pal, "bg", cl.bg) ELSE <<>>)

print_glyph_none == <<Char(NURU_SPACE)>>

print_glyph_ascii(cl, ch_key) ==
    IF cl.ch = ch_key THEN print_glyph_none ELSE <<Char(cl.ch)>>

print_glyph_unicode(cl, ch_key) ==
    IF cl.ch = ch_key THEN print_glyph_none ELSE <<Char(cl.ch)>>

print_glyph_pal(cl, ch_key, pal) ==
    IF cl.ch = ch_key THEN print_glyph_none
    ELSE <<Char(nuru_pal_get_glyph(pal, cl.ch))>>

\* the first switch of print_nui's loop body
ColorOut(img, pal, cl) ==
    CASE img.color_mode = NURU_COLOR_MODE_4BIT ->
            print_color_4bit(cl, img.fg_key, img.bg_key)
      [] img.color_mode = NURU_COLOR_MODE_8BIT ->
            print_color_8bit(cl, img.fg_key, img.bg_key)
      [] img.color_mode = NURU_COLOR_MODE_PALETTE ->
            print_color_pal(cl, img.fg_key, img.bg_key, pal)
      [] OTHER -> <<>>

\* mutant: case NURU_GLYPH_MODE_NONE falls through to the ASCII printer
GlyphOutMutant(img, pal, cl) ==
    CASE img.glyph_mode \in {NURU_GLYPH_MODE_NONE, NURU_GLYPH_MODE_ASCII} ->
            print_glyph_ascii(cl, img.ch_key)
      [] img.glyph_mode = NURU_GLYPH_MODE_UNICODE ->
            print_glyph_unicode(cl, img.ch_key)
      [] img.glyph_mode = NURU_GLYPH_MODE_PALETTE ->
            print_glyph_pal(cl, img.ch_key, pal)
      [] OTHER -> <<>>
\* the second switch of print_nui's loop body
GlyphOut(img, pal, cl) ==
    CASE img.glyph_mode = NURU_GLYPH_MODE_NONE -> print_glyph_none
      [] img.glyph_mode = NURU_GLYPH_MODE_ASCII ->
            print_glyph_ascii(cl, img.ch_key)
      [] img.glyph_mode = NURU_GLYPH_MODE_UNICODE ->
            print_glyph_unicode(cl, img.ch_key)
      [] img.glyph_mode = NURU_GLYPH_MODE_PALETTE ->
            print_glyph_pal(cl, img.ch_key, pal)
      [] OTHER -> <<>>

\* the loop body: colour, glyph, then ANSI_FONT_RESET
\* mutant: the reset is written before the cell instead of after it
CellOutMutant(img, gpal, cpal, cl) ==
    <<RESET>> \o ColorOut(img, cpal, cl) \o GlyphOut(img, gpal, cl)
CellOut(img, gpal, cpal, cl) ==
    ColorOut(img, cpal, cl) \o GlyphOut(img, gpal, cl) \o <<RESET>>

----------------------------------------------------------------------------
(* print_nui *)

\* ++r, ++c on uint16_t
\* mutant: the counters are uint8_t
Inc16Mutant(x) == (x + 1) % U8Mod
Inc16(x) == (x + 1) % (U16Max + 1)

\* r < nui->rows && r < rows
RowCond == r < nui.rows /\ r < ws.row
\* c < nui->cols && c < cols
\* mutant: the column loop is not clipped to the area (c < nui->cols alone)
ColCondMutant == c < nui.cols
ColCond == c < nui.cols /\ c < ws.col

PrintCell ==
    /\ pc = "print"
    /\ RowCond
    /\ ColCond
    /\ cell' = <<c, r>>
    /\ out' = CellOut(nui, nug, nuc, nuru_img_get_cell(nui, c, r))
    /\ ncells' = ncells + 1
    /\ term' = [term EXCEPT !.style = StyleAfter(term.style, out')]
    /\ c' = Inc16(c)
    /\ UNCHANGED <<pc, opts, env, nui, nug, nuc, ws, loads, status,
                   r, nbreaks>>

PrintNewline ==
    /\ pc = "print"
    /\ RowCond
    /\ ~ColCond
    /\ out' = <<NEWLINE>>
    /\ nbreaks' = nbreaks + 1
    /\ r' = Inc16(r)
    /\ c' = 0
    /\ UNCHANGED <<pc, opts, env, nui, nug, nuc, ws, term, loads, status,
                   cell, ncells>>

PrintReturn ==
    /\ pc = "print"
    /\ ~RowCond
    /\ pc' = "printed"
    /\ UNCHANGED <<opts, env, nui, nug, nuc, ws, term, loads, status,
                   r, c, cell, out, ncells, nbreaks>>

NextPrint == PrintCell \/ PrintNewline \/ PrintReturn

----------------------------------------------------------------------------
(* print_nui on its own: the arguments are drawn from bounded sets *)

NULL == "NULL"
EXIT_SUCCESS == 0
EXIT_FAILURE == 1

NoOpts == [help |-> 0, version |-> 0, info |-> 0, clear |-> 0,
           nui_file |-> NULL, nug_file |-> NULL, nuc_file |-> NULL]

TermStart == [cursor |-> "shown", echo |-> TRUE, cleared |-> FALSE,
              style |-> "default"]

Mk(ch, fg, bg) == [ch |-> ch, fg |-> fg, bg |-> bg]

GlyphPal == [type |-> NURU_PAL_TYPE_GLYPH, seed |-> 1]
Col8Pal == [type |-> NURU_PAL_TYPE_COLOR_8BIT, seed |-> 2]
RgbPal == [type |-> NURU_PAL_TYPE_COLOR_RGB, seed |-> 3]

\* the rest of the state when print_nui is entered with img, gp, cp, area
PrintEntry(img, gp, cp, area) ==
    /\ pc = "print"
    /\ opts = NoOpts
    /\ env = [xdg |-> FALSE, tty |-> TRUE]
    /\ nui = img
    /\ nug = gp
    /\ nuc = cp
    /\ ws = area
    /\ term = [cursor |-> "hidden", echo |-> FALSE, cleared |-> FALSE,
               style |-> "default"]
    /\ loads = <<>>
    /\ status = "running"
    /\ r = 0
    /\ c = 0
    /\ cell = <<>>
    /\ out = <<>>
    /\ ncells = 0
    /\ nbreaks = 0

Img(cm, gm, cols, rows, keys, cells) ==
    [color_mode |-> cm, glyph_mode |-> gm, cols |-> cols, rows |-> rows,
     ch_key |-> keys.ch, fg_key |-> keys.fg, bg_key |-> keys.bg,
     glyph_pal |-> <<>>, color_pal |-> <<>>, cells |-> cells]

\* Clipping runs: every image size and area size in 0..MaxDim, every pair of
\* modes, two cell patterns.
ClipPatterns == { <<Mk(65, 1, 0), Mk(32, 0, 2), Mk(66, 9, 9)>>,
                  <<Mk(32, 0, 0), Mk(67, 3, 4)>> }

InitClip ==
    \E cm \in ColorModes, gm \in GlyphModes,
       cols \in 0..MaxDim, rows \in 0..MaxDim,
       acols \in 0..MaxDim, arows \in 0..MaxDim,
       cells \in ClipPatterns :
        PrintEntry(Img(cm, gm, cols, rows, Mk(32, 0, 0), cells),
                   GlyphPal, Col8Pal, [col |-> acols, row |-> arows])

SpecClip == InitClip /\ [][NextPrint]_vars

\* Cell-rendering runs: one row of 1..MaxCellCols equal cells, every mode,
\* every palette the mode can meet, every cell value and key of the sets below.
ColVals == {0, 7, 8, 15, 16, 200}
ChVals == {32, 65, 200}
FgKeys == {0, 15}
BgKeys == {0, 15}
ChKeys == {32, 65}

ColorPalsFor(cm) ==
    IF cm = NURU_COLOR_MODE_PALETTE
        THEN {ZeroPal, Col8Pal, RgbPal, GlyphPal} ELSE {ZeroPal}
GlyphPalsFor(gm) ==
    IF gm = NURU_GLYPH_MODE_PALETTE THEN {ZeroPal, GlyphPal} ELSE {ZeroPal}

InitCell ==
    \E cm \in ColorModes, gm \in GlyphModes, cols \in 1..MaxCellCols,
       chk \in ChKeys, fgk \in FgKeys, bgk \in BgKeys,
       ch \in ChVals, fg \in ColVals, bg \in ColVals :
        \E gp \in GlyphPalsFor(gm), cp \in ColorPalsFor(cm) :
            PrintEntry(Img(cm, gm, cols, 1, Mk(chk, fgk, bgk),
                           <<Mk(ch, fg, bg)>>),
                       gp, cp, [col |-> MaxCellCols, row |-> 1])

SpecCell == InitCell /\ [][NextPrint]_vars

\* 16-bit runs: images and areas at the top of the uint16_t range, those whose
\* clipped area has at most U16Max cells.
WideDims == { <<0, U16Max>>, <<1, U16Max>>, <<2, U16Max>>,
              <<U16Max, 1>>, <<U16Max, 2>> }
WideAreas == { <<U16Max, U16Max>>, <<1, U16Max>>, <<U16Max, 1>> }

InitWide ==
    \E d \in WideDims, a \in WideAreas :
        /\ (Min(d[1], a[1]) <= 1 \/ Min(d[2], a[2]) <= 1)
        /\ PrintEntry(Img(NURU_COLOR_MODE_NONE, NURU_GLYPH_MODE_ASCII,
                          d[1], d[2], Mk(32, 0, 0), <<Mk(65, 1, 0)>>),
                      ZeroPal, ZeroPal, [col |-> a[1], row |-> a[2]])

SpecWide == InitWide /\ [][NextPrint]_vars /\ WF_vars(NextPrint)

----------------------------------------------------------------------------
(* main *)

\* tolower() on a character code
tolower(ch) == IF ch \in 65..90 THEN ch + 32 ELSE ch
\* make_lower(): every character of the name lower-cased
make_lower(str) == [i \in 1..Len(str) |-> tolower(str[i])]

\* pal_path(): $XDG_CONFIG_HOME/nuru/<type>/<pal>.nup, or
\* $HOME/.config/nuru/<type>/<pal>.nup without XDG_CONFIG_HOME
pal_path(pal, type) ==
    IF env.xdg THEN <<"$XDG_CONFIG_HOME", "nuru", type, pal, "nup">>
    ELSE <<"$HOME", ".config", "nuru", type, pal, "nup">>

\* what nuru_img_load / nuru_pal_load can return (nuru.h): 0 with the decoded
\* value, or -1 with the destination left as it was
ImgNames == { <<>>, <<80, 49>> }
MainCells == <<Mk(65, 1, 0), Mk(32, 0, 2)>>
ImgFiles ==
    { [rc |-> -1, img |-> ZeroImg] } \cup
    { [rc |-> 0,
       img |-> [Img(cm, gm, 2, 1, Mk(32, 0, 0), MainCells)
                    EXCEPT !.glyph_pal = gn, !.color_pal = cn]] :
        cm \in ColorModes, gm \in GlyphModes,
        gn \in ImgNames, cn \in ImgNames }
GlyphPalFiles ==
    { [rc |-> -1, pal |-> ZeroPal], [rc |-> 0, pal |-> GlyphPal] }
ColorPalFiles ==
    { [rc |-> -1, pal |-> ZeroPal], [rc |-> 0, pal |-> Col8Pal],
      [rc |-> 0, pal |-> RgbPal], [rc |-> 0, pal |-> GlyphPal] }
\* what ioctl(TIOCGWINSZ) can report
WinSizes ==
    { [rc |-> -1, ws |-> [col |-> 0, row |-> 0]],
      [rc |-> 0, ws |-> [col |-> 0, row |-> 0]],
      [rc |-> 0, ws |-> [col |-> 0, row |-> 24]],
      [rc |-> 0, ws |-> [col |-> 80, row |-> 0]],
      [rc |-> 0, ws |-> [col |-> 1, row |-> 1]],
      [rc |-> 0, ws |-> [col |-> 80, row |-> 24]] }

\* the state after parse_args: every combination of options
InitMain ==
    /\ pc = "start"
    /\ opts \in [help : {0, 1}, version : {0, 1}, info : {0, 1},
                 clear : {0, 1}, nui_file : {NULL, "img.nui"},
                 nug_file : {NULL, "g.nup"}, nuc_file : {NULL, "c.nup"}]
    /\ env \in [xdg : BOOLEAN, tty : BOOLEAN]
    /\ nui = ZeroImg
    /\ nug = ZeroPal
    /\ nuc = ZeroPal
    /\ ws = [col |-> 0, row |-> 0]
    /\ term = TermStart
    /\ loads = <<>>
    /\ status = "running"
    /\ r = 0
    /\ c = 0
    /\ cell = <<>>
    /\ out = <<>>
    /\ ncells = 0
    /\ nbreaks = 0

\* return <code> from main
Exit(code) == pc' = "exit" /\ status' = code

\* if (opts.help) { help(); return EXIT_SUCCESS; }
Help ==
    /\ pc = "start"
    /\ opts.help = 1
    /\ Exit(EXIT_SUCCESS)
    /\ UNCHANGED <<opts, env, nui, nug, nuc, ws, term, loads,
                   r, c, cell, out, ncells, nbreaks>>

\* if (opts.version) { version(); return EXIT_SUCCESS; }
Version ==
    /\ pc = "start"
    /\ opts.help = 0
    /\ opts.version = 1
    /\ Exit(EXIT_SUCCESS)
    /\ UNCHANGED <<opts, env, nui, nug, nuc, ws, term, loads,
                   r, c, cell, out, ncells, nbreaks>>

\* if (opts.nui_file == NULL) return EXIT_FAILURE;
NoImageFile ==
    /\ pc = "start"
    /\ opts.help = 0
    /\ opts.version = 0
    /\ opts.nui_file = NULL
    /\ Exit(EXIT_FAILURE)
    /\ UNCHANGED <<opts, env, nui, nug, nuc, ws, term, loads,
                   r, c, cell, out, ncells, nbreaks>>

\* a call of nuru_img_load / nuru_pal_load, as recorded in loads: what was
\* loaded, whether the path is an explicit file or built from a name, the
\* path, and the call's result
Load(what, by, path, rc) ==
    [what |-> what, by |-> by, path |-> path, rc |-> rc]

\* if (nuru_img_load(&nui, opts.nui_file) == -1) return EXIT_FAILURE;
LoadImage ==
    /\ pc = "start"
    /\ opts.help = 0
    /\ opts.version = 0
    /\ opts.nui_file # NULL
    /\ \E f \in ImgFiles :
        /\ loads' = Append(loads, Load("image", "file", opts.nui_file, f.rc))
        /\ nui' = f.img
        /\ IF f.rc = -1 THEN Exit(EXIT_FAILURE)
           ELSE pc' = "loaded" /\ status' = status
    /\ UNCHANGED <<opts, env, nug, nuc, ws, term,
                   r, c, cell, out, ncells, nbreaks>>

\* if (opts.info) { info(&nui); return EXIT_SUCCESS; }
Info ==
    /\ pc = "loaded"
    /\ opts.info = 1
    /\ Exit(EXIT_SUCCESS)
    /\ UNCHANGED <<opts, env, nui, nug, nuc, ws, term, loads,
                   r, c, cell, out, ncells, nbreaks>>

\* uint8_t using_glyph_pal = (nui.glyph_mode & 128) && nui.glyph_pal[0];
using_glyph_pal == HighBit(nui.glyph_mode) /\ nui.glyph_pal # <<>>
\* uint8_t using_color_pal = (nui.color_mode & 128) && nui.color_pal[0];
using_color_pal == HighBit(nui.color_mode) /\ nui.color_pal # <<>>

\* load_pal_by_name(): the path built from the lower-cased name, and the
\* result of nuru_pal_load mapped to 0 / -1
load_pal_by_name_path(type, name) == pal_path(make_lower(name), type)
\* mutant: the result of nuru_pal_load is dropped
load_pal_by_name_rcMutant(rc) == 0
load_pal_by_name_rc(rc) == IF rc = 0 THEN 0 ELSE -1

\* mutant: the image's declared name wins over the explicit file
PalSourceMutant(file, using) ==
    IF using THEN "name" ELSE IF file # NULL THEN "file" ELSE "none"
\* if (file) ... else if (using) ... : which load main attempts
PalSource(file, using) ==
    IF file # NULL THEN "file" ELSE IF using THEN "name" ELSE "none"

\* potentially load a glyph palette
LoadGlyphPal ==
    /\ pc = "loaded"
    /\ opts.info = 0
    /\ LET src == PalSource(opts.nug_file, using_glyph_pal) IN
        IF src = "file" THEN
            \E f \in GlyphPalFiles :
                /\ loads' = Append(loads,
                        Load("glyphs", "file", opts.nug_file, f.rc))
                /\ nug' = f.pal
                /\ IF f.rc = -1 THEN Exit(EXIT_FAILURE)
                   ELSE pc' = "glyph_pal_done" /\ status' = status
        ELSE IF src = "name" THEN
            \E f \in GlyphPalFiles :
                /\ loads' = Append(loads,
                        Load("glyphs", "name",
                             load_pal_by_name_path("glyphs", nui.glyph_pal),
                             f.rc))
                /\ nug' = f.pal
                /\ IF load_pal_by_name_rc(f.rc) = -1 THEN Exit(EXIT_FAILURE)
                   ELSE pc' = "glyph_pal_done" /\ status' = status
        ELSE
            /\ pc' = "glyph_pal_done"
            /\ UNCHANGED <<loads, nug, status>>
    /\ UNCHANGED <<opts, env, nui, nuc, ws, term,
                   r, c, cell, out, ncells, nbreaks>>

\* potentially load a color palette
LoadColorPal ==
    /\ pc = "glyph_pal_done"
    /\ LET src == PalSource(opts.nuc_file, using_color_pal) IN
        IF src = "file" THEN
            \E f \in ColorPalFiles :
                /\ loads' = Append(loads,
                        Load("colors", "file", opts.nuc_file, f.rc))
                /\ nuc' = f.pal
                /\ IF f.rc = -1 THEN Exit(EXIT_FAILURE)
                   ELSE pc' = "color_pal_done" /\ status' = status
        ELSE IF src = "name" THEN
            \E f \in ColorPalFiles :
                /\ loads' = Append(loads,
                        Load("colors", "name",
                             load_pal_by_name_path("colors", nui.color_pal),
                             f.rc))
                /\ nuc' = f.pal
                /\ IF load_pal_by_name_rc(f.rc) = -1 THEN Exit(EXIT_FAILURE)
                   ELSE pc' = "color_pal_done" /\ status' = status
        ELSE
            /\ pc' = "color_pal_done"
            /\ UNCHANGED <<loads, nuc, status>>
    /\ UNCHANGED <<opts, env, nui, nug, ws, term,
                   r, c, cell, out, ncells, nbreaks>>

\* term_wsize(&ws) == -1, then ws.ws_col == 0 || ws.ws_row == 0
TermWsize ==
    /\ pc = "color_pal_done"
    /\ \E w \in WinSizes :
        /\ ws' = w.ws
        /\ IF w.rc = -1 \/ w.ws.col = 0 \/ w.ws.row = 0
           THEN Exit(EXIT_FAILURE)
           ELSE pc' = "wsize_done" /\ status' = status
    /\ UNCHANGED <<opts, env, nui, nug, nuc, term, loads,
                   r, c, cell, out, ncells, nbreaks>>

\* setlocale(); if (fwide(stdout, 1) != 1) return EXIT_FAILURE;
WideMode ==
    /\ pc = "wsize_done"
    /\ \E fwide \in {1, 0} :
        IF fwide # 1 THEN Exit(EXIT_FAILURE)
        ELSE pc' = "wide" /\ status' = status
    /\ UNCHANGED <<opts, env, nui, nug, nuc, ws, term, loads,
                   r, c, cell, out, ncells, nbreaks>>

\* term_echo(on): without a terminal on stdin tcgetattr fails and nothing
\* changes
term_echo(t, on) == IF env.tty THEN [t EXCEPT !.echo = on] ELSE t

\* term_setup(): hide the cursor, echo off, clear if asked
term_setup(t) ==
    LET t1 == [t EXCEPT !.cursor = "hidden"]
        t2 == term_echo(t1, FALSE)
    IN  IF opts.clear = 1 THEN [t2 EXCEPT !.cleared = TRUE] ELSE t2

\* mutant: term_reset resets the font and the echo but does not show the cursor
term_resetMutant(t) == term_echo([t EXCEPT !.style = "default"], TRUE)
\* term_reset(): font reset, cursor shown, echo on
term_reset(t) ==
    term_echo([t EXCEPT !.style = "default", !.cursor = "shown"], TRUE)

\* term_setup(&opts); then print_nui is entered
TermSetup ==
    /\ pc = "wide"
    /\ term' = term_setup(term)
    /\ pc' = "print"
    /\ r' = 0
    /\ c' = 0
    /\ UNCHANGED <<opts, env, nui, nug, nuc, ws, loads, status,
                   cell, out, ncells, nbreaks>>

\* nuru_img_free(&nui); term_reset(); return EXIT_SUCCESS;
Cleanup ==
    /\ pc = "printed"
    /\ nui' = [nui EXCEPT !.cells = <<>>]
    /\ term' = term_reset(term)
    /\ Exit(EXIT_SUCCESS)
    /\ UNCHANGED <<opts, env, nug, nuc, ws, loads,
                   r, c, cell, out, ncells, nbreaks>>

NextMain ==
    \/ Help
    \/ Version
    \/ NoImageFile
    \/ LoadImage
    \/ Info
    \/ LoadGlyphPal
    \/ LoadColorPal
    \/ TermWsize
    \/ WideMode
    \/ TermSetup
    \/ PrintCell
    \/ PrintNewline
    \/ PrintReturn
    \/ Cleanup

Spec == InitMain /\ [][NextMain]_vars

----------------------------------------------------------------------------
(* Properties of main *)

LoadsOf(what) == SelectSeq(loads, LAMBDA l : l.what = what)
\* main is past its glyph / color palette stage
PastGlyphStage ==
    pc \in {"glyph_pal_done", "color_pal_done", "wsize_done", "wide",
            "print", "printed"}
PastColorStage ==
    pc \in {"color_pal_done", "wsize_done", "wide", "print", "printed"}

\* C7: whenever print_nui runs with a palette-indexed colour (glyph) mode,
\* the colour (glyph) palette has been loaded successfully before.
C7_PaletteLoadedBeforeRender ==
    pc = "print" =>
        /\ HighBit(nui.color_mode) =>
            (nuc # ZeroPal /\ \E i \in 1..Len(loads) :
                loads[i].what = "colors" /\ loads[i].rc = 0)
        /\ HighBit(nui.glyph_mode) =>
            (nug # ZeroPal /\ \E i \in 1..Len(loads) :
                loads[i].what = "glyphs" /\ loads[i].rc = 0)

\* the source main must choose for one palette, as the claim states it
C8_Expected(file, mode, name) ==
    IF file # NULL THEN "file"
    ELSE IF HighBit(mode) /\ Len(name) > 0 THEN "name"
    ELSE "none"

C8_Holds(what, file, mode, name, past) ==
    LET ls == LoadsOf(what)
        want == C8_Expected(file, mode, name)
    IN  /\ Len(ls) <= 1
        /\ \A i \in 1..Len(ls) :
            /\ ls[i].by = want
            /\ ls[i].by = "file" => ls[i].path = file
            /\ ls[i].by = "name" =>
                /\ ls[i].path[Len(ls[i].path) - 2] = what
                /\ ls[i].path[Len(ls[i].path) - 1] =
                        [k \in 1..Len(name) |->
                            IF name[k] \in 65..90 THEN name[k] + 32
                            ELSE name[k]]
        /\ past => (Len(ls) = 1 <=> want # "none")

\* C8: for each palette, an explicit file (-g / -c) is the one loaded and the
\* declared name is not used; the named palette is loaded only without an
\* explicit file, with the mode's high bit set and a non-empty name;
\* otherwise no load is attempted.
C8_PaletteSource ==
    /\ C8_Holds("glyphs", opts.nug_file, nui.glyph_mode, nui.glyph_pal,
                PastGlyphStage)
    /\ C8_Holds("colors", opts.nuc_file, nui.color_mode, nui.color_pal,
                PastColorStage)

\* rendering was reached with the glyph palette from -g although the image
\* names one, and the colour palette found by its declared name
C8_Witness ==
    /\ pc = "print"
    /\ opts.nug_file # NULL /\ opts.nuc_file = NULL
    /\ HighBit(nui.glyph_mode) /\ nui.glyph_pal # <<>>
    /\ Len(loads) = 3
    /\ loads[2].by = "file" /\ loads[2].path = "g.nup"
    /\ loads[3].by = "name" /\ loads[3].path[Len(loads[3].path) - 1] = <<112, 49>>

\* C9: a failed load of the image, of an explicit palette file or of a named
\* palette is the last load main makes (no retry, nothing loaded after it):
\* main has returned EXIT_FAILURE, no cell was rendered and the terminal is
\* as it was at the start (term_setup was not called).
C9_LoadFailureExits ==
    \A i \in 1..Len(loads) :
        loads[i].rc # 0 =>
            /\ i = Len(loads)
            /\ \A j \in 1..(i - 1) : loads[j].what # loads[i].what
            /\ pc = "exit"
            /\ status = EXIT_FAILURE
            /\ ncells = 0 /\ nbreaks = 0 /\ out = <<>>
            /\ term = TermStart

\* the named colour palette failed to load after image and glyph palette
C9_Witness ==
    /\ pc = "exit"
    /\ Len(loads) = 3
    /\ loads[1].rc = 0 /\ loads[2].rc = 0
    /\ loads[3].by = "name" /\ loads[3].rc = -1
    /\ status = EXIT_FAILURE

----------------------------------------------------------------------------
(* Properties of print_nui *)

\* the clipped area
ClipCols == Min(nui.cols, ws.col)
ClipRows == Min(nui.rows, ws.row)

InPrint == pc \in {"print", "printed"}
\* the latest step of print_nui rendered a cell / wrote a line break
CellStep == InPrint /\ out # <<>> /\ out # <<NEWLINE>>
BreakStep == InPrint /\ out = <<NEWLINE>>
\* the cell the latest cell step rendered
Cur == nuru_img_get_cell(nui, cell[1], cell[2])

OfLayer(toks, layer) == SelectSeq(toks, LAMBDA t : t.layer = layer)
Chars(toks) == SelectSeq(toks, LAMBDA t : t.t = "char")

\* C1: print_nui visits exactly the cells (r, c) with r < min(rows,
\* avail_rows) and c < min(cols, avail_cols), each once, in row-major order
\* (the k-th visit, counted from 0, is cell (k div w, k mod w)), writes one
\* line break after the last visited cell of each visited row, and has
\* rendered w * h cells and h line breaks when it returns.
C1_ClippedRowMajor ==
    /\ CellStep =>
        /\ cell[1] < ClipCols
        /\ cell[2] < ClipRows
        /\ ncells = cell[2] * ClipCols + cell[1] + 1
        /\ nbreaks = cell[2]
    /\ BreakStep =>
        /\ nbreaks <= ClipRows
        /\ ncells = nbreaks * ClipCols
    /\ pc = "printed" =>
        /\ ncells = ClipCols * ClipRows
        /\ nbreaks = ClipRows

\* an image larger than the area in both directions has been rendered
C1_Witness ==
    /\ pc = "printed"
    /\ nui.cols > ws.col /\ nui.rows > ws.row
    /\ ws.col >= 2 /\ ws.row >= 2
    /\ ncells = ws.col * ws.row
    /\ nbreaks = ws.row

\* C2: in a non-None mode a foreground equal to fg_key writes no foreground
\* colour sequence, a background equal to bg_key writes no background colour
\* sequence, a glyph equal to ch_key writes the space; and what one field
\* writes does not depend on the value, sentinel or not, of the other two.
C2_SentinelsIndependent ==
    CellStep =>
        /\ (nui.color_mode # NURU_COLOR_MODE_NONE /\ Cur.fg = nui.fg_key)
                => OfLayer(out, "fg") = <<>>
        /\ (nui.color_mode # NURU_COLOR_MODE_NONE /\ Cur.bg = nui.bg_key)
                => OfLayer(out, "bg") = <<>>
        /\ (nui.glyph_mode # NURU_GLYPH_MODE_NONE /\ Cur.ch = nui.ch_key)
                => Chars(out) = <<Char(NURU_SPACE)>>
        /\ \A v \in ColVals :
            LET o == CellOut(nui, nug, nuc, [Cur EXCEPT !.fg = v])
            IN  OfLayer(o, "bg") = OfLayer(out, "bg") /\ Chars(o) = Chars(out)
        /\ \A v \in ColVals :
            LET o == CellOut(nui, nug, nuc, [Cur EXCEPT !.bg = v])
            IN  OfLayer(o, "fg") = OfLayer(out, "fg") /\ Chars(o) = Chars(out)
        /\ \A v \in ChVals :
            LET o == CellOut(nui, nug, nuc, [Cur EXCEPT !.ch = v])
            IN  OfLayer(o, "fg") = OfLayer(out, "fg")
                /\ OfLayer(o, "bg") = OfLayer(out, "bg")

\* a cell with a sentinel foreground, a real background and a real glyph
C2_Witness ==
    /\ CellStep
    /\ nui.color_mode = NURU_COLOR_MODE_8BIT
    /\ nui.glyph_mode = NURU_GLYPH_MODE_ASCII
    /\ Cur.fg = nui.fg_key /\ Cur.bg # nui.bg_key /\ Cur.ch # nui.ch_key
    /\ out = <<Tok("c256", "bg", <<Cur.bg>>), Char(Cur.ch), RESET>>

\* C3: in Direct4Bit mode the code written is in {30..37, 90..97} for the
\* foreground and in {40..47, 100..107} for the background, whatever the
\* stored value (values 16..255 are rejected, not wrapped).
C3_4bitCodesInRange ==
    (CellStep /\ nui.color_mode = NURU_COLOR_MODE_4BIT) =>
        \A i \in 1..Len(out) :
            /\ out[i].layer = "fg" => out[i].v[1] \in (30..37) \cup (90..97)
            /\ out[i].layer = "bg" => out[i].v[1] \in (40..47) \cup (100..107)

\* C4: in PaletteIndexed mode a non-sentinel value is resolved through an
\* 8-bit palette to a 256-colour sequence and through an RGB palette to a
\* true-colour sequence, and with a palette that is no colour palette the cell
\* is not rendered (rendering aborts with an error).
C4_PaletteResolvedOrAborted ==
    (CellStep /\ nui.color_mode = NURU_COLOR_MODE_PALETTE) =>
        /\ (Cur.fg # nui.fg_key /\ nuc.type = NURU_PAL_TYPE_COLOR_8BIT) =>
            OfLayer(out, "fg") =
                <<Tok("c256", "fg", <<nuru_pal_get_col_8bit(nuc, Cur.fg)>>)>>
        /\ (Cur.fg # nui.fg_key /\ nuc.type = NURU_PAL_TYPE_COLOR_RGB) =>
            OfLayer(out, "fg") =
                <<Tok("rgb", "fg", nuru_pal_get_col_rgb(nuc, Cur.fg))>>
        /\ ((Cur.fg # nui.fg_key \/ Cur.bg # nui.bg_key)
            /\ nuc.type \notin {NURU_PAL_TYPE_COLOR_8BIT,
                                NURU_PAL_TYPE_COLOR_RGB}) =>
            Chars(out) = <<>>

\* C5: in glyph mode None every visited cell writes the space, whatever its
\* stored glyph, ch_key and the glyph palette are.
C5_GlyphNoneBlank ==
    (CellStep /\ nui.glyph_mode = NURU_GLYPH_MODE_NONE) =>
        /\ Chars(out) = <<Char(NURU_SPACE)>>
        /\ \A p \in {ZeroPal, GlyphPal} :
            Chars(CellOut(nui, p, nuc, Cur)) = <<Char(NURU_SPACE)>>

\* a printable stored glyph that is not the key, in mode None
C5_Witness ==
    /\ CellStep
    /\ nui.glyph_mode = NURU_GLYPH_MODE_NONE
    /\ Cur.ch = 65 /\ nui.ch_key # 65
    /\ Chars(out) = <<Char(NURU_SPACE)>>

\* C6: a cell's output is its colour sequences (foreground before
\* background), then exactly one glyph, then exactly one reset; a line break
\* is written on its own after all cells of its row; and after every cell and
\* at every line break the terminal's style is the reset one.
C6_CellOrderAndReset ==
    /\ CellStep =>
        LET n == Len(out) IN
        /\ n >= 2
        /\ out[n] = RESET
        /\ out[n - 1].t = "char"
        /\ \A i \in 1..(n - 2) : out[i].layer \in {"fg", "bg"}
        /\ Len(OfLayer(out, "fg")) <= 1
        /\ Len(OfLayer(out, "bg")) <= 1
        /\ \A i, j \in 1..(n - 2) :
            (out[i].layer = "bg" /\ out[j].layer = "fg") => j < i
    /\ BreakStep => ncells = nbreaks * ClipCols
    /\ InPrint => term.style = "default"

\* a cell that wrote both colour sequences
C6_Witness ==
    /\ CellStep
    /\ Len(out) = 4
    /\ out[1].layer = "fg" /\ out[2].layer = "bg"
    /\ term.style = "default"

\* C10: print_nui returns; r and c never wrap (r never decreases, c never
\* decreases within a row); at most min(rows, avail_rows) * min(cols,
\* avail_cols) cells are visited.
C10_TerminatesNoWrap ==
    /\ <>(pc = "printed")
    /\ [][r' >= r /\ (c' >= c \/ r' = r + 1)]_vars
    /\ [](ncells <= ClipRows * ClipCols)

\* a run over 65535 rows has returned with r at the top of its range
C10_Witness ==
    /\ pc = "printed"
    /\ r = U16Max
    /\ nbreaks = U16Max

\* the cursor, echo and cleared parts of the terminal state
TermModes(t) == <<t.cursor, t.echo, t.cleared>>

\* C11: the cursor is hidden, the echo disabled and the screen cleared only
\* by term_setup (main's step from "wide"); once term_setup has run, main
\* leaves only through term_reset (font reset, cursor shown, echo on); so
\* whenever main has exited, on any path, the cursor is shown, the echo is
\* on and the style is the reset one, and the cursor is hidden only while
\* print_nui runs.
C11_TerminalRestored ==
    /\ [][(TermModes(term') # TermModes(term)) =>
            \/ (pc = "wide" /\ pc' = "print" /\ term' = term_setup(term))
            \/ (pc = "printed" /\ pc' = "exit"
                /\ term'.cursor = "shown" /\ term'.echo
                /\ term'.style = "default")]_vars
    /\ [][(pc # "exit" /\ pc' = "exit") =>
            (term'.cursor = "shown" /\ term'.echo
             /\ term'.style = "default")]_vars
    /\ [](term.cursor = "hidden" => pc \in {"print", "printed"})
    /\ [](pc = "exit" => (term.cursor = "shown" /\ term.echo))

\* a run that cleared the screen, rendered cells with echo off and the cursor
\* hidden, and has exited through term_reset
C11_Witness ==
    /\ pc = "exit"
    /\ status = EXIT_SUCCESS
    /\ env.tty
    /\ term.cleared
    /\ ncells > 0
    /\ term.cursor = "shown" /\ term.echo /\ term.style = "default"

====
